---- MODULE Spec2Model ----
(***************************************************************************)
(* A model of process_data.py: the halving-cycle multiplier, the monthly   *)
(* return generator, the per-month statistics and the main pipeline.       *)
(*                                                                         *)
(* Numbers are fixed point.  The source computes with binary floats; the   *)
(* model computes with exact decimals, in the units named at each          *)
(* definition:                                                             *)
(*   cycle multipliers        tenths            (2.5  -> 25)               *)
(*   seasonal bias, base vol  hundredths        (0.12 -> 12)               *)
(*   base return              thousandths       (0.025 -> 25)              *)
(*   raw monthly return       1e-5              (0.60 -> 60000)            *)
(*   stored monthly values    tenths of percent (12.3 -> 123)              *)
(*   average, median          hundredths of percent                        *)
(*   max, min, win_rate       tenths of percent                            *)
(* A Python dict is a sequence of <<key, value>> pairs in insertion order. *)
(* None is the empty sequence and a present value v is <<v>>.              *)
(***************************************************************************)
EXTENDS Integers, Sequences, FiniteSets, TLC

VARIABLES
    pc,               \* position of the running entry point
    halving_arg,      \* get_cycle_multiplier: keys of halving_years, insertion order
    query_year,       \* get_cycle_multiplier: year
    multiplier,       \* get_cycle_multiplier: outcome
    asset,            \* generate_monthly_returns: asset
    start_year,       \* generate_monthly_returns: start_year
    end_year,         \* generate_monthly_returns: end_year
    base_volatility,  \* generate_monthly_returns: base_volatility
    base_return,      \* generate_monthly_returns: base_return
    rng,              \* state of the process-wide random module
    data,             \* the monthly return series (year -> months)
    monthly_stats,    \* calculate_statistics: result
    clock,            \* wall clock read by datetime.now()
    run,              \* which run of the pipeline is executing
    asset_idx,        \* main: position in assets.items()
    output,           \* main: the output record
    documents         \* per run, the serialized document written by json.dump

vars == <<pc, halving_arg, query_year, multiplier, asset, start_year, end_year,
          base_volatility, base_return, rng, data, monthly_stats, clock, run,
          asset_idx, output, documents>>

None == <<>>
Some(v) == <<v>>

Range(s) == {s[i] : i \in DOMAIN s}
SetMax(S) == CHOOSE x \in S : \A y \in S : y <= x
SetMin(S) == CHOOSE x \in S : \A y \in S : x <= y

-----------------------------------------------------------------------------
(* Bounds of the model *)

\* query years given to get_cycle_multiplier
MinQueryYear == 2005
MaxQueryYear == 2028
\* most halving years in a halving dict
MaxHalvings == 4
\* start years given to generate_monthly_returns
MinStartYear == 2009
MaxStartYear == 2027
\* most years between start_year and end_year
MaxSpan == 1
\* states of the random module at a call of generate_monthly_returns
MaxSeed == 63
\* states of the random module when a process starts
MaxFreshState == 3
\* times the clock can read when a run starts
MaxClock == 2
\* runs of the pipeline
NumRuns == 2
\* most years in a series given to calculate_statistics
MaxStatYears == 4

-----------------------------------------------------------------------------
(* Module-level tables *)

BTC_HALVINGS == << <<2012, 11>>, <<2016, 7>>, <<2020, 5>>, <<2024, 4>> >>

MONTHLY_BIAS == <<5, 12, -2, 8, -5, -8, 2, -3, -10, 15, 18, 10>>

\* dict helpers: keys in insertion order, membership, lookup
dict_keys(d) == [i \in 1..Len(d) |-> d[i][1]]
dict_has(d, k) == \E i \in 1..Len(d) : d[i][1] = k
dict_get(d, k) == d[CHOOSE i \in 1..Len(d) : d[i][1] = k][2]

-----------------------------------------------------------------------------
(* Built-ins the code calls *)

\* sorted(xs): ascending, by insertion
RECURSIVE insert_sorted(_, _)
insert_sorted(x, s) ==
    IF s = <<>> THEN <<x>>
    ELSE IF x <= Head(s) THEN <<x>> \o s
    ELSE <<Head(s)>> \o insert_sorted(x, Tail(s))

RECURSIVE sorted(_)
sorted(xs) == IF xs = <<>> THEN <<>> ELSE insert_sorted(Head(xs), sorted(Tail(xs)))

RECURSIVE seq_sum(_)
seq_sum(xs) == IF xs = <<>> THEN 0 ELSE Head(xs) + seq_sum(Tail(xs))

seq_max(xs) == SetMax(Range(xs))
seq_min(xs) == SetMin(Range(xs))

\* round(n / d) to the nearest integer, ties to the even one (d > 0)
round_half_even(n, d) ==
    LET q == n \div d
        r == n % d
    IN  IF 2 * r < d THEN q
        ELSE IF 2 * r > d THEN q + 1
        ELSE IF q % 2 = 0 THEN q ELSE q + 1

-----------------------------------------------------------------------------
(* get_cycle_multiplier *)

Returned(v) == [raised |-> "none", value |-> v]
Raised(e) == [raised |-> e, value |-> 0]

\* the first ladder without its last branch
post_halving_ladder_two_steps(years_since) ==
    IF years_since <= 1 THEN 25 ELSE 15

post_halving_ladder(years_since) ==
    IF years_since <= 1 THEN 25
    ELSE IF years_since <= 2 THEN 15
    ELSE 7

after_last_ladder(years_since) ==
    IF years_since <= 1 THEN 20
    ELSE IF years_since <= 2 THEN 12
    ELSE 6

\* the body of the for loop from position i on, then the code after the loop
RECURSIVE cycle_walk(_, _, _)
cycle_walk(year, halvings, i) ==
    IF i > Len(halvings)
    THEN IF halvings = <<>>
         THEN Raised("IndexError")
         ELSE Returned(after_last_ladder(year - halvings[Len(halvings)]))
    ELSE IF year < halvings[i]
         THEN Returned(post_halving_ladder(
                  year - (IF i > 1 THEN halvings[i - 1] ELSE 2009)))
         ELSE IF year = halvings[i]
              THEN Returned(12)
              ELSE cycle_walk(year, halvings, i + 1)

\* the walk over the keys as supplied, not sorted
get_cycle_multiplier_unsorted(year, halving_keys) ==
    cycle_walk(year, halving_keys, 1)

get_cycle_multiplier(year, halving_keys) ==
    cycle_walk(year, sorted(halving_keys), 1)

-----------------------------------------------------------------------------
(* The random module.  Its generator is a deterministic function of its    *)
(* state; the state space here is 0..63 and a step is a full-period        *)
(* congruence.  gauss(0, sigma) advances the state once and returns sigma  *)
(* times a standard deviate, which ranges over -8.00 .. 7.75 in quarters.  *)

\* the seed call left out: the state stays what the process started with
random_seed_skipped(state, a) == state

random_seed(state, a) == a % 64

random_step(state) == (13 * state + 7) % 64

random_gauss(state, sigma) ==
    LET next == random_step(state)
    IN  [sample |-> (sigma * (next - 32)) \div 4, state |-> next]

-----------------------------------------------------------------------------
(* generate_monthly_returns *)

int_max(a, b) == IF a >= b THEN a ELSE b
int_min(a, b) == IF a <= b THEN a ELSE b

\* the clamp without its lower end
clamp_upper_only(monthly_return) == int_min(150000, monthly_return)

\* max(-0.60, min(1.50, monthly_return)), in 1e-5
clamp(monthly_return) == int_max(-60000, int_min(150000, monthly_return))

\* the chain of ifs that ends an iteration with monthly[month] = None
skipped(a, year, month) ==
    \/ year = 2026 /\ month > 1
    \/ a = "BTC" /\ year = 2011 /\ month < 1
    \/ a = "ETH" /\ year < 2016
    \/ a \in {"TOTAL2", "TOTAL3", "OTHERS"} /\ year < 2017
    \/ a \in {"TOTALES", "TOTALE50", "TOTALE100"} /\ year < 2021

\* one iteration of the month loop: the cell stored and the random state left
month_cell(a, year, month, cycle_mult, bv, br, state) ==
    IF skipped(a, year, month)
    THEN [cell |-> None, state |-> state]
    ELSE LET seasonal_bias == MONTHLY_BIAS[month]
             vol0 == bv * cycle_mult
             vol1 == IF a \in {"ETH", "TOTAL2", "OTHERS"}
                     THEN vol0 * 13 ELSE vol0 * 10
             volatility == IF a \in {"TOTAL3", "TOTALES", "TOTALE50", "TOTALE100"}
                           THEN vol1 * 15 ELSE vol1 * 10
             base == (br * cycle_mult + seasonal_bias * 100) * 10
             noise == random_gauss(state, volatility)
             monthly_return == clamp(base + noise.sample)
         IN  [cell |-> Some(round_half_even(monthly_return, 100)),
              state |-> noise.state]

\* for month in range(1, 13), from `month` on; monthly holds the cells so far
RECURSIVE month_loop(_, _, _, _, _, _, _, _)
month_loop(a, year, month, cycle_mult, bv, br, monthly, state) ==
    IF month > 12
    THEN [monthly |-> monthly, state |-> state]
    ELSE LET c == month_cell(a, year, month, cycle_mult, bv, br, state)
         IN  month_loop(a, year, month + 1, cycle_mult, bv, br,
                        Append(monthly, c.cell), c.state)

\* the annotation assigned as the year's record instead of into it
year_record_overwritten(monthly, year, halving_years) ==
    IF dict_has(halving_years, year)
    THEN [months |-> <<>>, annot |-> {<<"halving_month", dict_get(halving_years, year)>>}]
    ELSE [months |-> monthly, annot |-> {}]

\* data[year] = monthly, then the halving annotation on the same record
year_record(monthly, year, halving_years) ==
    [months |-> monthly,
     annot  |-> IF dict_has(halving_years, year)
                THEN {<<"halving_month", dict_get(halving_years, year)>>}
                ELSE {}]

\* for year in range(start_year, end_year + 1), from `year` on
RECURSIVE year_loop(_, _, _, _, _, _, _)
year_loop(a, year, ey, bv, br, series, state) ==
    IF year > ey
    THEN [data |-> series, state |-> state]
    ELSE LET halving_years == IF a = "BTC" THEN BTC_HALVINGS ELSE <<>>
             cycle_mult == get_cycle_multiplier(year, dict_keys(BTC_HALVINGS)).value
             m == month_loop(a, year, 1, cycle_mult, bv, br, <<>>, state)
         IN  year_loop(a, year + 1, ey, bv, br,
                       Append(series, <<year, year_record(m.monthly, year, halving_years)>>),
                       m.state)

generate_monthly_returns(a, sy, ey, bv, br, state) ==
    year_loop(a, sy, ey, bv, br, <<>>, state)

-----------------------------------------------------------------------------
(* calculate_statistics *)

\* the values of `month` collected over data.items(), in insertion order
RECURSIVE month_values(_, _)
month_values(series, month) ==
    IF series = <<>> THEN <<>>
    ELSE LET months == Head(series)[2].months
             rest == month_values(Tail(series), month)
         IN  IF month \in DOMAIN months /\ months[month] # None
             THEN <<months[month][1]>> \o rest
             ELSE rest

\* zero counted as green
green_count_with_zero(values) == Cardinality({i \in DOMAIN values : values[i] >= 0})

green_count(values) == Cardinality({i \in DOMAIN values : values[i] > 0})
red_count(values) == Cardinality({i \in DOMAIN values : values[i] < 0})

\* round(sum(values) / len(values), 2)
average_of(values) == round_half_even(seq_sum(values) * 10, Len(values))

\* the lower middle element
median_lower_middle(values) == sorted(values)[(Len(values) - 1) \div 2 + 1] * 10

\* round(sorted(values)[len(values) // 2], 2)
median_of(values) == sorted(values)[Len(values) \div 2 + 1] * 10

\* the largest s in lo..hi with s * s <= n
RECURSIVE int_sqrt(_, _, _)
int_sqrt(n, lo, hi) ==
    IF lo >= hi THEN lo
    ELSE LET mid == (lo + hi + 1) \div 2
         IN  IF mid * mid <= n THEN int_sqrt(n, mid, hi) ELSE int_sqrt(n, lo, mid - 1)

\* round((sum((v - mean) ** 2 for v in values) / len(values)) ** 0.5, 2):
\* the deviation is sqrt(n * sum(v^2) - sum(v)^2) / n tenths; t is the floor of
\* twenty times the square root, found next to 20 * s without large products.
volatility_of(values) ==
    LET n == Len(values)
        sq == n * seq_sum([i \in DOMAIN values |-> values[i] * values[i]])
              - seq_sum(values) * seq_sum(values)
        s == int_sqrt(sq, 0, 46340)
        d == SetMax({e \in 0..19 : 40 * s * e + e * e <= 400 * (sq - s * s)})
        t == 20 * s + d
    IN  (t \div n + 1) \div 2

\* round(green / (green + red) * 100, 1) if (green + red) > 0 else 0
win_rate_of(green, red) ==
    IF green + red > 0 THEN round_half_even(green * 1000, green + red) ELSE 0

month_statistics(values) ==
    [average      |-> average_of(values),
     median       |-> median_of(values),
     volatility   |-> volatility_of(values),
     max          |-> seq_max(values),
     min          |-> seq_min(values),
     green_months |-> green_count(values),
     red_months   |-> red_count(values),
     win_rate     |-> win_rate_of(green_count(values), red_count(values))]

calculate_statistics(series) ==
    [month \in 1..12 |->
        LET values == month_values(series, month)
        IN  IF values # <<>> THEN Some(month_statistics(values)) ELSE None]

-----------------------------------------------------------------------------
(* main *)

ASSETS ==
    << <<"BTC",       [start |-> 2011, name |-> "Bitcoin", base_vol |-> 12, base_ret |-> 25]>>,
       <<"ETH",       [start |-> 2016, name |-> "Ethereum", base_vol |-> 18, base_ret |-> 30]>>,
       <<"TOTAL2",    [start |-> 2017, name |-> "Total Market Cap (ex-BTC)", base_vol |-> 20, base_ret |-> 28]>>,
       <<"TOTAL3",    [start |-> 2017, name |-> "Total Market Cap (ex-BTC & ETH)", base_vol |-> 22, base_ret |-> 30]>>,
       <<"OTHERS",    [start |-> 2017, name |-> "Altcoins", base_vol |-> 25, base_ret |-> 32]>>,
       <<"TOTALES",   [start |-> 2021, name |-> "Total Ecosystem (S)", base_vol |-> 23, base_ret |-> 28]>>,
       <<"TOTALE50",  [start |-> 2021, name |-> "Total Ecosystem (Top 50)", base_vol |-> 21, base_ret |-> 26]>>,
       <<"TOTALE100", [start |-> 2021, name |-> "Total Ecosystem (Top 100)", base_vol |-> 22, base_ret |-> 27]>> >>

HALVINGS ==
    << [year |-> 2012, month |-> 11, label |-> "Halving #1", block |-> 210000],
       [year |-> 2016, month |-> 7,  label |-> "Halving #2", block |-> 420000],
       [year |-> 2020, month |-> 5,  label |-> "Halving #3", block |-> 630000],
       [year |-> 2024, month |-> 4,  label |-> "Halving #4", block |-> 840000] >>

MONTH_NAMES ==
    <<"Jan", "Feb", "Mar", "Apr", "May", "Jun", "Jul", "Aug", "Sep", "Oct", "Nov", "Dec">>

\* the last year main asks generate_monthly_returns for
main_end_year(config) == 2026

\* the output record before the asset loop; now is datetime.now().isoformat()
initial_output(now) ==
    [generated_at |-> now, halvings |-> HALVINGS, months |-> MONTH_NAMES, assets |-> <<>>]

\* output["assets"][asset_key] = {...}
asset_entry(key, config, monthly_data, stats) ==
    <<key, [name |-> config.name, start_year |-> config.start,
            data |-> monthly_data, statistics |-> stats]>>

\* json.dump(output, f, indent=2): the members of the document, in order
json_dump(o) ==
    << <<"generated_at", o.generated_at>>, <<"halvings", o.halvings>>,
       <<"months", o.months>>, <<"assets", o.assets>> >>

-----------------------------------------------------------------------------
(* State before any entry point has run *)

AssetKeys == Range(dict_keys(ASSETS))

NoCall ==
    /\ halving_arg = <<>>
    /\ query_year = 2009
    /\ multiplier = Returned(0)

NoGenerate ==
    /\ asset = "BTC"
    /\ start_year = 2011
    /\ end_year = 2011
    /\ base_volatility = 15
    /\ base_return = 20

NoMain ==
    /\ clock = 0
    /\ run = 1
    /\ asset_idx = 1
    /\ output = initial_output(0)
    /\ documents = [r \in 1..NumRuns |-> None]

-----------------------------------------------------------------------------
(* get_cycle_multiplier called on its own *)

\* the key orders of the dicts of at most MaxHalvings halving years
HalvingPool == {2012, 2013, 2016, 2020, 2024}

HalvingDicts ==
    {h \in UNION {[1..n -> HalvingPool] : n \in 0..MaxHalvings} :
        \A i, j \in DOMAIN h : i # j => h[i] # h[j]}

InitCycle ==
    /\ pc = "cycle_call"
    /\ halving_arg \in HalvingDicts
    /\ query_year \in MinQueryYear..MaxQueryYear
    /\ multiplier = Returned(0)
    /\ NoGenerate /\ NoMain
    /\ rng = 0 /\ data = <<>> /\ monthly_stats = <<>>

CallCycle ==
    /\ pc = "cycle_call"
    /\ multiplier' = get_cycle_multiplier(query_year, halving_arg)
    /\ pc' = "cycle_done"
    /\ UNCHANGED <<halving_arg, query_year, asset, start_year, end_year,
                   base_volatility, base_return, rng, data, monthly_stats,
                   clock, run, asset_idx, output, documents>>

NextCycle == CallCycle

SpecCycle == InitCycle /\ [][NextCycle]_vars

-----------------------------------------------------------------------------
(* generate_monthly_returns called on its own: a registry asset with its   *)
(* configured parameters, or another asset with the default parameters     *)

InitGenerate ==
    /\ pc = "generate_call"
    /\ asset \in AssetKeys \cup {"DOGE"}
    /\ start_year \in MinStartYear..MaxStartYear
    /\ end_year \in start_year..(start_year + MaxSpan)
    /\ base_volatility = IF asset \in AssetKeys THEN dict_get(ASSETS, asset).base_vol ELSE 15
    /\ base_return = IF asset \in AssetKeys THEN dict_get(ASSETS, asset).base_ret ELSE 20
    /\ rng \in 0..MaxSeed
    /\ data = <<>>
    /\ monthly_stats = <<>>
    /\ NoCall /\ NoMain

CallGenerate ==
    /\ pc = "generate_call"
    /\ LET r == generate_monthly_returns(asset, start_year, end_year,
                                         base_volatility, base_return, rng)
       IN  /\ data' = r.data
           /\ rng' = r.state
    /\ pc' = "generate_done"
    /\ UNCHANGED <<halving_arg, query_year, multiplier, asset, start_year, end_year,
                   base_volatility, base_return, monthly_stats,
                   clock, run, asset_idx, output, documents>>

NextGenerate == CallGenerate

SpecGenerate == InitGenerate /\ [][NextGenerate]_vars

-----------------------------------------------------------------------------
(* calculate_statistics called on its own: a series of at most MaxStatYears *)
(* years; a year holds one cell in every month, and the last year may hold  *)
(* it in January only, as the year 2026 does                                *)

StatValues == {-10, 0, 10, 20, 30, 40}
StatCells == {None} \cup {Some(v) : v \in StatValues}

stat_series(cells, january_only) ==
    [i \in DOMAIN cells |->
        <<2020 + i,
          [months |-> [m \in 1..12 |->
                          IF january_only /\ i = Len(cells) /\ m > 1
                          THEN None ELSE cells[i]],
           annot  |-> {}]>>]

InitStatistics ==
    /\ pc = "statistics_call"
    /\ \E n \in 0..MaxStatYears : \E cells \in [1..n -> StatCells] :
          \E january_only \in BOOLEAN : data = stat_series(cells, january_only)
    /\ monthly_stats = <<>>
    /\ rng = 0
    /\ NoCall /\ NoGenerate /\ NoMain

CallStatistics ==
    /\ pc = "statistics_call"
    /\ monthly_stats' = calculate_statistics(data)
    /\ pc' = "statistics_done"
    /\ UNCHANGED <<halving_arg, query_year, multiplier, asset, start_year, end_year,
                   base_volatility, base_return, rng, data,
                   clock, run, asset_idx, output, documents>>

NextStatistics == CallStatistics

SpecStatistics == InitStatistics /\ [][NextStatistics]_vars

-----------------------------------------------------------------------------
(* main, run NumRuns times, each run in a process of its own: the random   *)
(* module starts in a state of its own and the clock reads a time of its   *)
(* own                                                                     *)

InitMain ==
    /\ pc = "main_call"
    /\ clock \in 0..MaxClock
    /\ rng \in 0..MaxFreshState
    /\ run = 1
    /\ asset_idx = 1
    /\ output = initial_output(0)
    /\ documents = [r \in 1..NumRuns |-> None]
    /\ data = <<>>
    /\ monthly_stats = <<>>
    /\ NoCall /\ NoGenerate

\* random.seed(42) and the output record
MainStart ==
    /\ pc = "main_call"
    /\ rng' = random_seed(rng, 42)
    /\ output' = initial_output(clock)
    /\ asset_idx' = 1
    /\ pc' = "main_assets"
    /\ UNCHANGED <<halving_arg, query_year, multiplier, asset, start_year, end_year,
                   base_volatility, base_return, data, monthly_stats,
                   clock, run, documents>>

\* one iteration of for asset_key, config in assets.items()
MainAsset ==
    /\ pc = "main_assets"
    /\ asset_idx <= Len(ASSETS)
    /\ LET key == ASSETS[asset_idx][1]
           config == ASSETS[asset_idx][2]
           r == generate_monthly_returns(key, config.start, main_end_year(config),
                                         config.base_vol, config.base_ret, rng)
           stats == calculate_statistics(r.data)
       IN  /\ asset' = key
           /\ start_year' = config.start
           /\ end_year' = main_end_year(config)
           /\ base_volatility' = config.base_vol
           /\ base_return' = config.base_ret
           /\ data' = r.data
           /\ rng' = r.state
           /\ monthly_stats' = stats
           /\ output' = [output EXCEPT
                            !.assets = Append(@, asset_entry(key, config, r.data, stats))]
    /\ asset_idx' = asset_idx + 1
    /\ UNCHANGED <<pc, halving_arg, query_year, multiplier, clock, run, documents>>

\* json.dump(output, f, indent=2)
MainSave ==
    /\ pc = "main_assets"
    /\ asset_idx > Len(ASSETS)
    /\ documents' = [documents EXCEPT ![run] = Some(json_dump(output))]
    /\ pc' = "main_done"
    /\ UNCHANGED <<halving_arg, query_year, multiplier, asset, start_year, end_year,
                   base_volatility, base_return, rng, data, monthly_stats,
                   clock, run, asset_idx, output>>

\* the next run starts in a fresh process
NextRun ==
    /\ pc = "main_done"
    /\ run < NumRuns
    /\ run' = run + 1
    /\ clock' \in 0..MaxClock
    /\ rng' \in 0..MaxFreshState
    /\ output' = initial_output(0)
    /\ asset_idx' = 1
    /\ data' = <<>>
    /\ monthly_stats' = <<>>
    /\ pc' = "main_call"
    /\ UNCHANGED <<halving_arg, query_year, multiplier, asset, start_year, end_year,
                   base_volatility, base_return, documents>>

NextMain == MainStart \/ MainAsset \/ MainSave \/ NextRun

SpecMain == InitMain /\ [][NextMain]_vars

-----------------------------------------------------------------------------
(* Properties *)

\* the (year, month, cell) triples of a series
Cells(series) ==
    UNION {{<<series[i][1], m, series[i][2].months[m]>> :
               m \in DOMAIN series[i][2].months} : i \in DOMAIN series}

SeriesWellFormed(series) ==
    \A i \in DOMAIN series : DOMAIN series[i][2].months = 1..12

\* C1: every non-absent value stored by generate_monthly_returns lies in the
\* closed interval [-60.0, 150.0] percent, whatever the asset, the year range
\* and the noise drawn.
C1_StoredInRange ==
    pc = "generate_done" =>
        /\ SeriesWellFormed(data)
        /\ \A c \in Cells(data) : c[3] # None => c[3][1] \in -600..1500

\* a run that stored both ends of the interval: the clamp acted on both sides
C1_Witness ==
    /\ pc = "generate_done"
    /\ SeriesWellFormed(data)
    /\ \E c \in Cells(data) : c[3] = Some(1500)
    /\ \E c \in Cells(data) : c[3] = Some(-600)

\* C2: for a registry asset, every produced year earlier than the asset's
\* first valid year holds the absence marker in all 12 months.
C2_AbsentBeforeFirstYear ==
    (pc = "generate_done" /\ asset \in AssetKeys) =>
        \A i \in DOMAIN data :
            data[i][1] < dict_get(ASSETS, asset).start =>
                /\ DOMAIN data[i][2].months = 1..12
                /\ \A m \in 1..12 : data[i][2].months[m] = None

\* C3: every (year, month) strictly after January 2026 holds the absence
\* marker, the years after 2026 included.
C3_AbsentAfterHorizon ==
    pc = "generate_done" =>
        /\ SeriesWellFormed(data)
        /\ \A c \in Cells(data) :
              (c[1] > 2026 \/ (c[1] = 2026 /\ c[2] > 1)) => c[3] = None

Saved(r) == documents[r] # None
Document(r) == documents[r][1]

\* C4 as stated: any two runs of the pipeline write the same document,
\* whatever the time each was started at.
C4_ByteIdentical ==
    \A r1, r2 \in 1..NumRuns :
        (Saved(r1) /\ Saved(r2)) => Document(r1) = Document(r2)

\* C4 amended: any two runs write documents whose halvings, months and assets
\* members are the same; generated_at is the run's own start time, so the
\* documents are the same when the two runs started at the same time.
C4_IdenticalApartFromTimestamp ==
    \A r1, r2 \in 1..NumRuns :
        (Saved(r1) /\ Saved(r2)) =>
            /\ Len(Document(r1)) = 4 /\ Len(Document(r2)) = 4
            /\ \A k \in 2..4 : Document(r1)[k] = Document(r2)[k]
            /\ Document(r1)[1][2] = Document(r2)[1][2] => Document(r1) = Document(r2)

\* two runs started at different times have both written their documents
C4_Witness ==
    /\ Saved(1) /\ Saved(2)
    /\ Document(1)[1][2] # Document(2)[1][2]
    /\ Len(Document(1)[4][2]) = Len(ASSETS)

BtcHalvingYears == {2012, 2016, 2020, 2024}

\* C5 as stated: with the halving years 2012, 2016, 2020, 2024 the multiplier
\* of 2023 is 0.6.
C5_Year2023Gives06 ==
    (pc = "cycle_done" /\ Range(halving_arg) = BtcHalvingYears /\ query_year = 2023)
        => multiplier = Returned(6)

\* C5 amended: with the halving years 2012, 2016, 2020, 2024 the multiplier of
\* 2023 is 0.7: the first halving year after 2023 is 2024, the one before it is
\* 2020, and yearsSince = 3 selects the last branch of the first ladder.
C5_Year2023Gives07 ==
    (pc = "cycle_done" /\ Range(halving_arg) = BtcHalvingYears /\ query_year = 2023)
        => multiplier = Returned(7)

C5_Witness ==
    /\ pc = "cycle_done"
    /\ halving_arg = dict_keys(BTC_HALVINGS)
    /\ query_year = 2023
    /\ multiplier.raised = "none"

\* the multiplier the specification gives a year and a set of halving years
SpecifiedMultiplier(year, H) ==
    IF year \in H THEN 12
    ELSE IF \E h \in H : h > year
    THEN LET following == SetMin({h \in H : h > year})
             before == {h \in H : h < following}
             boundary == IF before = {} THEN 2009 ELSE SetMax(before)
             years_since == year - boundary
         IN  IF years_since <= 1 THEN 25 ELSE IF years_since <= 2 THEN 15 ELSE 7
    ELSE LET years_since == year - SetMax(H)
         IN  IF years_since <= 1 THEN 20 ELSE IF years_since <= 2 THEN 12 ELSE 6

\* C6: for a non-empty halving set, given in any order, get_cycle_multiplier
\* returns the multiplier of the specified algorithm; 2013 with the halving
\* years 2012, 2016, 2020, 2024 gives 2.5.
C6_MatchesSpecifiedAlgorithm ==
    (pc = "cycle_done" /\ halving_arg # <<>>) =>
        /\ multiplier = Returned(SpecifiedMultiplier(query_year, Range(halving_arg)))
        /\ query_year \in Range(halving_arg) => multiplier.value = 12
        /\ (Range(halving_arg) = BtcHalvingYears /\ query_year = 2013)
              => multiplier.value = 25

\* the halving years supplied out of order, and a year between two of them
C6_Witness ==
    /\ pc = "cycle_done"
    /\ halving_arg = <<2024, 2012, 2020, 2016>>
    /\ query_year = 2013
    /\ multiplier = Returned(25)

\* the positions of the series that hold a value in `month`
Present(series, month) ==
    {i \in DOMAIN series :
        month \in DOMAIN series[i][2].months /\ series[i][2].months[month] # None}
ValueAt(series, month, i) == series[i][2].months[month][1]

\* C7: the median of a month with n >= 1 values is the value at index n // 2
\* of the values in ascending order: one of the month's own values, with at
\* most n // 2 values below it and more than n // 2 values not above it,
\* between the reported min and max; 1.0, 2.0, 3.0, 4.0 give 3.0.
C7_MedianIsUpperMiddle ==
    pc = "statistics_done" =>
        \A month \in 1..12 :
            LET P == Present(data, month)
                n == Cardinality(P)
            IN  n >= 1 =>
                  /\ monthly_stats[month] # None
                  /\ LET st == monthly_stats[month][1]
                     IN  /\ \E i \in P :
                               /\ st.median = 10 * ValueAt(data, month, i)
                               /\ Cardinality({j \in P : ValueAt(data, month, j)
                                                  < ValueAt(data, month, i)}) <= n \div 2
                               /\ Cardinality({j \in P : ValueAt(data, month, j)
                                                  <= ValueAt(data, month, i)}) > n \div 2
                         /\ 10 * st.min <= st.median /\ st.median <= 10 * st.max
                         /\ (n = 4 /\ {ValueAt(data, month, j) : j \in P} = {10, 20, 30, 40})
                               => st.median = 300

\* the values 4.0, 1.0, 3.0, 2.0 of four years, visited in that order
C7_Witness ==
    /\ pc = "statistics_done"
    /\ Len(data) = 4
    /\ \A i \in 1..4 : data[i][2].months[1] = Some(<<40, 10, 30, 20>>[i])
    /\ monthly_stats[1] # None
    /\ monthly_stats[1][1].median = 300

\* C8: green counts the strictly positive values and red the strictly
\* negative ones, zeros count toward neither; win_rate is green / (green +
\* red) x 100 to the nearest tenth, and 0 when green + red = 0, the record
\* still being present; 3 positive and 1 negative value give 75.0.
C8_GreenRedWinRate ==
    pc = "statistics_done" =>
        \A month \in 1..12 :
            LET P == Present(data, month)
                g == Cardinality({i \in P : ValueAt(data, month, i) > 0})
                r == Cardinality({i \in P : ValueAt(data, month, i) < 0})
            IN  Cardinality(P) >= 1 =>
                  /\ monthly_stats[month] # None
                  /\ LET st == monthly_stats[month][1]
                         off == st.win_rate * (g + r) - 1000 * g
                     IN  /\ st.green_months = g
                         /\ st.red_months = r
                         /\ st.green_months + st.red_months <= Cardinality(P)
                         /\ g + r > 0 => (2 * off <= g + r /\ -2 * off <= g + r)
                         /\ g + r = 0 => st.win_rate = 0
                         /\ (g = 3 /\ r = 1) => st.win_rate = 750

\* three positive values and one negative value in the same month
C8_Witness ==
    /\ pc = "statistics_done"
    /\ Len(data) = 4
    /\ \A i \in 1..4 : data[i][2].months[1] = Some(<<10, -10, 20, 30>>[i])
    /\ monthly_stats[1] # None
    /\ monthly_stats[1][1].win_rate = 750

\* C9: after main the assets mapping holds exactly the registry's keys, each
\* asset's data holds exactly the years from its start year through 2026, and
\* every year record holds the 12 months, annotated years included.
C9_AssetsCoverRegistryAndYears ==
    pc = "main_done" =>
        /\ dict_keys(output.assets) = dict_keys(ASSETS)
        /\ \A a \in DOMAIN output.assets :
              LET entry == output.assets[a][2]
                  first == ASSETS[a][2].start
              IN  /\ dict_keys(entry.data) = [i \in 1..(2026 - first + 1) |-> first + i - 1]
                  /\ \A i \in DOMAIN entry.data :
                        /\ DOMAIN entry.data[i][2].months = 1..12
                        /\ \A m \in 1..12 :
                              \/ entry.data[i][2].months[m] = None
                              \/ Len(entry.data[i][2].months[m]) = 1

\* main has run and the record of BTC's year 2012 carries halving_month
C9_Witness ==
    /\ pc = "main_done"
    /\ Len(output.assets) = 8
    /\ output.assets[1][1] = "BTC"
    /\ dict_get(output.assets[1][2].data, 2012).annot = {<<"halving_month", 11>>}
    /\ Len(dict_get(output.assets[1][2].data, 2012).months) = 12

\* C10: with an empty halving set get_cycle_multiplier does not fault and
\* returns the first ladder on yearsSince = year - 2009.
C10_EmptySetUsesAnchor ==
    (pc = "cycle_done" /\ halving_arg = <<>>) =>
        LET years_since == query_year - 2009
        IN  multiplier = Returned(IF years_since <= 1 THEN 25
                                  ELSE IF years_since <= 2 THEN 15 ELSE 7)

====
